---- MODULE Spec2Model ----
(***************************************************************************)
(* Model of drivers/NeoSmart/driver.js, the Heatmiser Neo Smart driver:    *)
(* the device registry (devices, neoBridge), the polling timers, the state *)
(* synchroniser fetchData, the capability handlers, the pairing flow and   *)
(* the identity resolver generateDeviceID.                                 *)
(*                                                                         *)
(* Conventions.  Temperatures are integers in hundredths of a degree, so   *)
(* 20.6 is 2060 and Math.round is a real rounding.  Strings are sequences  *)
(* of character codes.  A base64 text is the sequence of its characters'   *)
(* indices in the base64 alphabet, with Pad (64) for '='.  JavaScript      *)
(* values that may be undefined, null or a number are records [k, v].      *)
(***************************************************************************)
EXTENDS Integers, Sequences, FiniteSets, TLC

VARIABLES
    started,      \* init has run
    devices,      \* const devices = []            (driver.js:6)
    neoBridge,    \* let neoBridge                 (driver.js:9)
    timers,       \* the active setInterval timers: {[h, id]}
    nextHandle,   \* the handle the next setInterval returns
    inflight,     \* neoBridge.info requests not answered yet, in issue order
    cmds,         \* neoBridge.setTemperature commands not answered yet
    out,          \* what the last handler run did: its inputs and its calls out
    tempDevices,  \* let tempDevices = []          (driver.js:7)
    sessions,     \* the list_devices requests made so far
    resolved,     \* the last identities computed (identity resolver runs)
    hub           \* how many times the hub's set-point has changed so far

vars == <<started, devices, neoBridge, timers, nextHandle, inflight, cmds, out,
          tempDevices, sessions, resolved, hub>>

registryVars == <<started, devices, neoBridge, timers, nextHandle, inflight, cmds>>
pairVars == <<tempDevices, sessions>>

-----------------------------------------------------------------------------
(* Bounds of the model *)

MaxLen == 2        \* longest name or type code given to the resolver alone
MaxAdds == 2       \* addDevice calls in one run (each takes a timer handle)
MaxSaved == 2      \* longest saved-device list given to init
MaxInflight == 2   \* info requests in flight at once
MaxCmds == 1       \* setTemperature commands in flight at once
MaxSnaps == 2      \* longest devices array of an info response
MaxSessions == 2   \* list_devices requests in one run
MaxReady == 2      \* ready events in one run
MaxFound == 2      \* longest discoveredDevices list of a ready event
MaxChanges == 2    \* changes of the hub's set-point in one run

-----------------------------------------------------------------------------
(* JavaScript values *)

Undefined == [k |-> "undefined", v |-> 0]
Null == [k |-> "null", v |-> 0]
Num(n) == [k |-> "number", v |-> n]
JsTrue == [k |-> "boolean", v |-> 1]

\* the value a list is reported as (a callback's second argument)
List(s) == [k |-> "list", v |-> s]

\* a presence check that lets the number 0 through
FalsyNotZero(x) == x.k \in {"undefined", "null"}

\* !x
Falsy(x) == x.k \in {"undefined", "null"} \/ (x.k = "number" /\ x.v = 0)

\* a string, or undefined where a property was never set
NoName == [k |-> "undefined", s |-> <<>>]
Str(s) == [k |-> "string", s |-> s]

\* Math.round(t) of t hundredths: to the nearest integer, halves up
RoundInt(c) == ((c + 50) \div 100) * 100

\* Math.floor in the place of Math.round
RoundTenthDown(c) == (c \div 10) * 10

\* Math.round(t * 10) / 10 of t hundredths: to one decimal, halves up
RoundTenth(c) == ((c + 5) \div 10) * 10

-----------------------------------------------------------------------------
(* Identity resolver *)

Pad == 64

RECURSIVE Base64(_)
\* Buffer.prototype.toString('base64'): three bytes make four characters
Base64(b) ==
    IF Len(b) = 0 THEN <<>>
    ELSE IF Len(b) = 1 THEN
        << b[1] \div 4, (b[1] % 4) * 16, Pad, Pad >>
    ELSE IF Len(b) = 2 THEN
        << b[1] \div 4, (b[1] % 4) * 16 + (b[2] \div 16), (b[2] % 16) * 4, Pad >>
    ELSE
        << b[1] \div 4, (b[1] % 4) * 16 + (b[2] \div 16),
           (b[2] % 16) * 4 + (b[3] \div 64), b[3] % 64 >>
        \o Base64(SubSeq(b, 4, Len(b)))

\* new Buffer(param1 + param2).toString('base64')
generateDeviceID(param1, param2) == Base64(param1 \o param2)

\* the characters '1' and 'Z'
ResolverChars == {49, 90}

RECURSIVE StringsOfLen(_)
StringsOfLen(n) ==
    IF n = 0 THEN {<<>>}
    ELSE {Append(s, c) : s \in StringsOfLen(n - 1), c \in ResolverChars}

\* the names and type codes given to the resolver: not empty, up to MaxLen long
ResolverStrings == UNION {StringsOfLen(n) : n \in 1..MaxLen}

\* one run of the resolver; the last two results are kept
Resolve(name, type) ==
    /\ resolved' = SubSeq(
            Append(resolved, [name |-> name, type |-> type,
                              id |-> generateDeviceID(name, type)]),
            IF Len(resolved) = 2 THEN 2 ELSE 1, Len(resolved) + 1)
    /\ UNCHANGED <<registryVars, pairVars, out, hub>>

-----------------------------------------------------------------------------
(* The host's and the hub's data *)

NoBridge == "undefined"
NoHandle == 0

\* the version '1.1.4' of semver.lt(deviceData.pairedWithAppVersion, '1.1.4')
MinVersion == <<1, 1, 4>>

\* semver.lt(a, b) on major.minor.patch versions
SemverLt(a, b) ==
    \/ a[1] < b[1]
    \/ a[1] = b[1] /\ a[2] < b[2]
    \/ a[1] = b[1] /\ a[2] = b[2] /\ a[3] < b[3]

\* the devices the hub may report: "Z1" of type 2, "Z" of type 12, "A" of type 1,
\* each with a set-point and a measured temperature.  No measured value lies
\* halfway between two tenths, where the floating-point product
\* CURRENT_TEMPERATURE * 10 can fall short of the half.
Snapshots ==
    { [device |-> <<90, 49>>, DEVICE_TYPE |-> <<50>>,
       CURRENT_SET_TEMPERATURE |-> 2155, CURRENT_TEMPERATURE |-> 2064],
      [device |-> <<90>>, DEVICE_TYPE |-> <<49, 50>>,
       CURRENT_SET_TEMPERATURE |-> 1800, CURRENT_TEMPERATURE |-> 2066],
      [device |-> <<65>>, DEVICE_TYPE |-> <<49>>,
       CURRENT_SET_TEMPERATURE |-> 2155, CURRENT_TEMPERATURE |-> 1996] }

IdZ == generateDeviceID(<<90, 49>>, <<50>>)
IdA == generateDeviceID(<<65>>, <<49>>)

\* the deviceData objects the host may hand in: paired with the current version,
\* paired before versions were recorded, paired with an old version
DeviceDatas ==
    { [kind |-> "data", id |-> IdZ, bridgeIP |-> "10.0.0.5",
       pairedWithAppVersion |-> <<1, 1, 4>>],
      [kind |-> "data", id |-> IdA, bridgeIP |-> "10.0.0.6",
       pairedWithAppVersion |-> <<>>],
      [kind |-> "data", id |-> IdZ, bridgeIP |-> "10.0.0.5",
       pairedWithAppVersion |-> <<1, 0, 0>>] }

\* an Error instance handed in where deviceData is expected
ErrorMarker ==
    [kind |-> "error", id |-> <<>>, bridgeIP |-> "", pairedWithAppVersion |-> <<>>]

RECURSIVE SeqsOfLen(_, _)
SeqsOfLen(S, n) ==
    IF n = 0 THEN {<<>>}
    ELSE {Append(s, x) : s \in SeqsOfLen(S, n - 1), x \in S}

SeqsUpTo(S, n) == UNION {SeqsOfLen(S, k) : k \in 0..n}

\* what neoBridge.info may call back with: no object, an object without devices,
\* an object whose devices is no array, or an object with a devices array
Responses ==
    {[kind |-> k, devices |-> <<>>] : k \in {"null", "nodevices", "notarray"}}
    \cup {[kind |-> "ok", devices |-> s] : s \in SeqsUpTo(Snapshots, MaxSnaps)}

\* the temperatures the host may ask for: none, 0, -2, 3, 20.5, 20.6, 40
SetInputs ==
    {Undefined, Num(0), Num(-200), Num(300), Num(2050), Num(2060), Num(4000)}

-----------------------------------------------------------------------------
(* What a handler run did *)

NoOut ==
    [op |-> "none", dev |-> <<>>, arg |-> Undefined,
     cb |-> <<>>,        \* the caller's callback: each call's (err, value)
     rt |-> <<>>,        \* module.exports.realtime calls
     info |-> 0,         \* neoBridge.info requests issued
     cmd |-> <<>>,       \* neoBridge.setTemperature commands issued
     unavail |-> <<>>,   \* module.exports.setUnavailable calls
     threw |-> FALSE,    \* the run ended in an exception
     done |-> FALSE,     \* fetchData's completion callback was called
     resp |-> "none",    \* the bridge's answer: an info response's kind, a command's err
     req |-> "none",     \* the completion callback of the info request answered
     snap |-> <<>>,      \* the response's snapshots with the refreshed identity
     seen |-> {},        \* the identities of all the response's snapshots
     late |-> Undefined, \* the set-point a later request's response applied before
     had |-> FALSE,      \* the registry held the identity when the request was issued
     session |-> 0]      \* the list_devices request a pairing event belongs to

Cb(err, value) == [err |-> err, value |-> value]

-----------------------------------------------------------------------------
(* Device registry *)

RECURSIVE FirstIndex(_, _, _)
FirstIndex(devs, id, x) ==
    IF x > Len(devs) THEN 0
    ELSE IF devs[x].data.id = id THEN x
    ELSE FirstIndex(devs, id, x + 1)

\* getDevice: the index of the first record with deviceData.id, 0 when none
getDevice(devs, id) == FirstIndex(devs, id, 1)

\* what getDevice returns when it finds no record: null for an empty list,
\* else nothing (undefined)
NotFoundValue(devs) == IF Len(devs) > 0 THEN "undefined" ELSE "null"

\* startPolling: the timer's handle goes to the record getDevice finds
startPolling(st, deviceData) ==
    LET x == getDevice(st.devices, deviceData.id) IN
    [st EXCEPT
        !.devices = [st.devices EXCEPT ![x].pollInterval = st.nextHandle],
        !.timers = st.timers \cup {[h |-> st.nextHandle, id |-> deviceData.id]},
        !.nextHandle = st.nextHandle + 1]

\* the re-pair check of addDevice
NeedsRePair(deviceData) ==
    \/ deviceData.pairedWithAppVersion = <<>>
    \/ SemverLt(deviceData.pairedWithAppVersion, MinVersion)

\* addDevice without its `if (!neoBridge)`: every add constructs the handle
addDeviceNewBridge(st, deviceData) ==
    LET device == [state |-> [targetTemperature |-> Null,
                              measureTemperature |-> Null],
                   data |-> deviceData,
                   name |-> NoName,
                   pollInterval |-> NoHandle]
        pushed == [st EXCEPT
            !.neoBridge = deviceData.bridgeIP,
            !.devices = Append(st.devices, device),
            !.unavail = IF NeedsRePair(deviceData)
                        THEN Append(st.unavail, deviceData.id) ELSE st.unavail]
    IN startPolling(pushed, deviceData)

\* addDevice on st = [devices, neoBridge, timers, nextHandle, unavail]
addDevice(st, deviceData) ==
    LET device == [state |-> [targetTemperature |-> Null,
                              measureTemperature |-> Null],
                   data |-> deviceData,
                   name |-> NoName,
                   pollInterval |-> NoHandle]
        pushed == [st EXCEPT
            !.neoBridge = IF st.neoBridge = NoBridge
                          THEN deviceData.bridgeIP ELSE st.neoBridge,
            !.devices = Append(st.devices, device),
            !.unavail = IF NeedsRePair(deviceData)
                        THEN Append(st.unavail, deviceData.id) ELSE st.unavail]
    IN startPolling(pushed, deviceData)

RECURSIVE AddAll(_, _)
\* devicesData.forEach(deviceData => addDevice(deviceData))
AddAll(st, devicesData) ==
    IF Len(devicesData) = 0 THEN st
    ELSE AddAll(addDevice(st, Head(devicesData)), Tail(devicesData))

Registry == [devices |-> devices, neoBridge |-> neoBridge, timers |-> timers,
             nextHandle |-> nextHandle, unavail |-> <<>>]

\* module.exports.init
InitDriver(devicesData) ==
    /\ ~started
    /\ nextHandle + Len(devicesData) - 1 <= MaxAdds
    /\ LET st == AddAll(Registry, devicesData) IN
        /\ devices' = st.devices
        /\ neoBridge' = st.neoBridge
        /\ timers' = st.timers
        /\ nextHandle' = st.nextHandle
        /\ out' = [NoOut EXCEPT !.op = "init", !.unavail = st.unavail,
                                !.cb = <<Cb("null", JsTrue)>>]
    /\ started' = TRUE
    /\ UNCHANGED <<inflight, cmds, pairVars, resolved, hub>>

\* module.exports.added
Added(deviceData) ==
    /\ started
    /\ nextHandle <= MaxAdds
    /\ LET st == addDevice(Registry, deviceData) IN
        /\ devices' = st.devices
        /\ neoBridge' = st.neoBridge
        /\ timers' = st.timers
        /\ nextHandle' = st.nextHandle
        /\ out' = [NoOut EXCEPT !.op = "added", !.dev = deviceData.id,
                                !.unavail = st.unavail,
                                !.cb = <<Cb("null", JsTrue)>>]
    /\ UNCHANGED <<started, inflight, cmds, pairVars, resolved, hub>>

\* clearInterval(handle): no timer has the handle undefined
clearInterval(ts, handle) == {t \in ts : t.h # handle}

\* devices.splice(x, 1)
Splice(devs, x) == SubSeq(devs, 1, x - 1) \o SubSeq(devs, x + 1, Len(devs))

\* module.exports.deleted
Deleted(deviceData) ==
    /\ started
    /\ LET x == getDevice(devices, deviceData.id) IN
        IF x = 0 THEN UNCHANGED <<devices, timers>>
        ELSE /\ timers' = clearInterval(timers, devices[x].pollInterval)
             /\ devices' = Splice(devices, x)
    /\ out' = [NoOut EXCEPT !.op = "deleted", !.dev = deviceData.id]
    /\ UNCHANGED <<started, neoBridge, nextHandle, inflight, cmds, pairVars, resolved, hub>>

-----------------------------------------------------------------------------
(* State synchroniser *)

\* a request the bridge has not read the hub's data for yet
NoData == [kind |-> "pending", devices |-> <<>>]

\* fetchData up to the request: one info request when the bridge handle exists
\* (deviceData is an object in every call the host and the timers make).  With
\* the request goes whether the registry holds the identity at this moment.
IssueInfo(bridge, fl, id, cb) ==
    IF bridge # NoBridge
    THEN Append(fl, [id |-> id, cb |-> cb, data |-> NoData, newer |-> Undefined,
                     had |-> getDevice(devices, id) # 0])
    ELSE fl

\* the guard without its Array.isArray half
WellFormedObject(data) == data.kind # "null"

\* data && Array.isArray(data.devices)
WellFormed(data) == data.kind # "null" /\ data.kind = "ok"

\* the body without the comparison with deviceData.id: every snapshot that has a
\* record is applied
ApplySnapshotAnyRecord(acc, id, hubDevice) ==
    LET hid == generateDeviceID(hubDevice.device, hubDevice.DEVICE_TYPE)
        x == getDevice(acc.devices, hid)
        target == Num(hubDevice.CURRENT_SET_TEMPERATURE)
        measure == Num(RoundTenth(hubDevice.CURRENT_TEMPERATURE))
    IN  IF x # 0
        THEN [devices |-> [acc.devices EXCEPT
                    ![x].name = Str(hubDevice.device),
                    ![x].state = [targetTemperature |-> target,
                                  measureTemperature |-> measure]],
              rt |-> acc.rt \o
                    << [id |-> id, cap |-> "target_temperature", value |-> target],
                       [id |-> id, cap |-> "measure_temperature", value |-> measure] >>]
        ELSE acc

\* the body without the `device &&` half of its condition: the notifications
\* are emitted for the refreshed identity whether or not a record was found
ApplySnapshotNoRecordCheck(acc, id, hubDevice) ==
    LET hid == generateDeviceID(hubDevice.device, hubDevice.DEVICE_TYPE)
        x == getDevice(acc.devices, hid)
        target == Num(hubDevice.CURRENT_SET_TEMPERATURE)
        measure == Num(RoundTenth(hubDevice.CURRENT_TEMPERATURE))
    IN  IF hid = id
        THEN [devices |-> IF x = 0 THEN acc.devices
                          ELSE [acc.devices EXCEPT
                                    ![x].name = Str(hubDevice.device),
                                    ![x].state = [targetTemperature |-> target,
                                                  measureTemperature |-> measure]],
              rt |-> acc.rt \o
                    << [id |-> id, cap |-> "target_temperature", value |-> target],
                       [id |-> id, cap |-> "measure_temperature", value |-> measure] >>]
        ELSE acc

\* the body applied only to a record that holds no set-point yet
ApplySnapshotFirstWins(acc, id, hubDevice) ==
    LET hid == generateDeviceID(hubDevice.device, hubDevice.DEVICE_TYPE)
        x == getDevice(acc.devices, hid)
    IN  IF x # 0 /\ hid = id /\ acc.devices[x].state.targetTemperature = Null
        THEN ApplySnapshotAnyRecord(acc, id, hubDevice)
        ELSE acc

\* the body of data.devices.forEach for one hubDevice, on acc = [devices, rt]
ApplySnapshot(acc, id, hubDevice) ==
    LET hid == generateDeviceID(hubDevice.device, hubDevice.DEVICE_TYPE)
        x == getDevice(acc.devices, hid)
        target == Num(hubDevice.CURRENT_SET_TEMPERATURE)
        measure == Num(RoundTenth(hubDevice.CURRENT_TEMPERATURE))
    IN  IF x # 0 /\ hid = id
        THEN [devices |-> [acc.devices EXCEPT
                    ![x].name = Str(hubDevice.device),
                    ![x].state = [targetTemperature |-> target,
                                  measureTemperature |-> measure]],
              rt |-> acc.rt \o
                    << [id |-> id, cap |-> "target_temperature", value |-> target],
                       [id |-> id, cap |-> "measure_temperature", value |-> measure] >>]
        ELSE acc

RECURSIVE ForEachSnapshot(_, _, _)
ForEachSnapshot(acc, id, hubDevices) ==
    IF Len(hubDevices) = 0 THEN acc
    ELSE ForEachSnapshot(ApplySnapshot(acc, id, Head(hubDevices)), id,
                         Tail(hubDevices))

\* data.devices.forEach(...): a TypeError when data.devices is no array
ForEachDevice(devs, id, data) ==
    IF data.kind = "ok"
    THEN LET acc == ForEachSnapshot([devices |-> devs, rt |-> <<>>], id,
                                    data.devices)
         IN [devices |-> acc.devices, rt |-> acc.rt, threw |-> FALSE]
    ELSE [devices |-> devs, rt |-> <<>>, threw |-> TRUE]

\* the callback fetchData gives to neoBridge.info, up to `if (callback)`
Reconcile(devs, id, data) ==
    IF WellFormed(data) THEN ForEachDevice(devs, id, data)
    ELSE [devices |-> devs, rt |-> <<>>, threw |-> FALSE]

\* the completion callback of target_temperature.get
TargetGetDone(devs, id) ==
    LET x == getDevice(devs, id) IN
    IF x = 0 THEN Cb("deviceData", Undefined)
    ELSE Cb("null", devs[x].state.targetTemperature)

\* the completion callback of measure_temperature.get
MeasureGetDone(devs, id) ==
    LET x == getDevice(devs, id) IN
    IF x = 0 THEN Cb(NotFoundValue(devs), Undefined)
    ELSE Cb("null", devs[x].state.measureTemperature)

RECURSIVE Matching(_, _)
\* the snapshots among hubDevices that carry identity id, in order
Matching(id, hubDevices) ==
    IF Len(hubDevices) = 0 THEN <<>>
    ELSE (IF Base64(Head(hubDevices).device \o Head(hubDevices).DEVICE_TYPE) = id
          THEN <<Head(hubDevices)>> ELSE <<>>) \o Matching(id, Tail(hubDevices))

\* the identities the forEach computes for the snapshots of hubDevices
Identities(hubDevices) ==
    {generateDeviceID(hubDevices[n].device, hubDevices[n].DEVICE_TYPE) :
        n \in 1..Len(hubDevices)}

RemoveAt(s, i) == SubSeq(s, 1, i - 1) \o SubSeq(s, i + 1, Len(s))

\* the requests in flight once the response to the i-th has been applied: no
\* request is cancelled or reordered, and a response already on its way to a
\* request issued before, for the same identity, is overtaken (newer: the
\* set-point the response to the i-th applied, if any)
Overtaken(fl, i, rt) ==
    [j \in 1..Len(fl) |->
        IF j < i /\ fl[j].id = fl[i].id /\ fl[j].data # NoData /\ rt # <<>>
        THEN [fl[j] EXCEPT !.newer = rt[Len(rt) - 1].value]
        ELSE fl[j]]

\* the bridge answers the i-th info request in flight with data
InfoReply(i, data) ==
    /\ i \in 1..Len(inflight)
    /\ LET req == inflight[i]
           r == Reconcile(devices, req.id, data)
           called == ~r.threw /\ req.cb # "none"
       IN /\ devices' = r.devices
          /\ out' = [NoOut EXCEPT
                !.op = "info_reply", !.dev = req.id,
                !.rt = r.rt, !.threw = r.threw, !.done = called,
                !.resp = data.kind, !.req = req.cb,
                !.snap = Matching(req.id, data.devices),
                !.seen = Identities(data.devices),
                !.late = req.newer, !.had = req.had,
                !.cb = IF ~called THEN <<>>
                       ELSE IF req.cb = "target_get"
                       THEN <<TargetGetDone(r.devices, req.id)>>
                       ELSE <<MeasureGetDone(r.devices, req.id)>>]
    /\ inflight' = RemoveAt(Overtaken(inflight, i,
                                       Reconcile(devices, inflight[i].id, data).rt), i)
    /\ UNCHANGED <<started, neoBridge, timers, nextHandle, cmds, pairVars, resolved, hub>>

\* a polling timer fires: fetchData(deviceData) without a callback
Tick(t) ==
    /\ t \in timers
    /\ Len(inflight) < MaxInflight
    /\ inflight' = IssueInfo(neoBridge, inflight, t.id, "none")
    /\ out' = [NoOut EXCEPT !.op = "tick", !.dev = t.id,
                            !.info = Len(inflight') - Len(inflight)]
    /\ UNCHANGED <<started, devices, neoBridge, timers, nextHandle, cmds,
                   pairVars, resolved, hub>>

\* the hub's data after g changes of its set-point: "Z1" at 18, 18.5, 19, ...
\* degrees and "A" as it was
HubData(g) ==
    << [device |-> <<90, 49>>, DEVICE_TYPE |-> <<50>>,
        CURRENT_SET_TEMPERATURE |-> 1800 + 50 * g, CURRENT_TEMPERATURE |-> 2064],
       [device |-> <<65>>, DEVICE_TYPE |-> <<49>>,
        CURRENT_SET_TEMPERATURE |-> 2155, CURRENT_TEMPERATURE |-> 1996] >>

\* the set-point of a device is changed on the hub
HubChanges ==
    /\ hub < MaxChanges
    /\ hub' = hub + 1
    /\ UNCHANGED <<registryVars, out, pairVars, resolved>>

\* the bridge reads the hub's data for the i-th info request in flight; the
\* response is on its way from then on
BridgeReads(i) ==
    /\ i \in 1..Len(inflight)
    /\ inflight[i].data = NoData
    /\ inflight' = [inflight EXCEPT
            ![i].data = [kind |-> "ok", devices |-> HubData(hub)]]
    /\ UNCHANGED <<started, devices, neoBridge, timers, nextHandle, cmds, out,
                   pairVars, resolved, hub>>

\* the response on its way to the i-th info request in flight arrives
InfoArrives(i) ==
    /\ i \in 1..Len(inflight)
    /\ inflight[i].data # NoData
    /\ InfoReply(i, inflight[i].data)

-----------------------------------------------------------------------------
(* Capability handlers *)

\* the get of a capability: cb names the completion callback
CapabilityGet(op, cb, deviceData) ==
    /\ started
    /\ Len(inflight) < MaxInflight
    /\ IF deviceData.kind = "error"
       THEN /\ out' = [NoOut EXCEPT !.op = op, !.dev = deviceData.id,
                                    !.cb = <<Cb("error_marker", Undefined)>>]
            /\ UNCHANGED inflight
       ELSE /\ inflight' = IssueInfo(neoBridge, inflight, deviceData.id, cb)
            /\ out' = [NoOut EXCEPT !.op = op, !.dev = deviceData.id,
                                    !.info = Len(inflight') - Len(inflight)]
    /\ UNCHANGED <<started, devices, neoBridge, timers, nextHandle, cmds,
                   pairVars, resolved, hub>>

\* capabilities.target_temperature.get
TargetGet(deviceData) == CapabilityGet("target_get", "target_get", deviceData)

\* capabilities.measure_temperature.get
MeasureGet(deviceData) == CapabilityGet("measure_get", "measure_get", deviceData)

\* the range check without its upper half
ClampLowOnly(t) == IF t < 500 THEN 500 ELSE t

\* the range check of target_temperature.set
Clamp(t) == IF t < 500 THEN 500 ELSE IF t > 3500 THEN 3500 ELSE t

\* the command target_temperature.set issues for temperature t and a record
SetCommand(t, device) ==
    [value |-> RoundInt(Clamp(t)), name |-> device.name,
     temperature |-> Clamp(t), asked |-> t]

\* what target_temperature.set does after its instanceof check:
\* [cb: the callback's calls, cmd: the commands issued, threw]
SetOutcome(devs, bridge, deviceData, temperature) ==
    LET x == getDevice(devs, deviceData.id) IN
    IF x = 0
    THEN [cb |-> <<Cb(NotFoundValue(devs), Undefined)>>, cmd |-> <<>>,
          threw |-> FALSE]
    ELSE IF Falsy(temperature)
    THEN [cb |-> <<Cb("missing_temperature_parameter", Undefined)>>,
          cmd |-> <<>>, threw |-> FALSE]
    ELSE IF bridge = NoBridge
    THEN [cb |-> <<>>, cmd |-> <<>>, threw |-> TRUE]
    ELSE [cb |-> <<>>, cmd |-> <<SetCommand(temperature.v, devs[x])>>,
          threw |-> FALSE]

\* capabilities.target_temperature.set
TargetSet(deviceData, temperature) ==
    /\ started
    /\ Len(cmds) < MaxCmds
    /\ LET r == IF deviceData.kind = "error"
                THEN [cb |-> <<Cb("error_marker", Undefined)>>, cmd |-> <<>>,
                      threw |-> FALSE]
                ELSE SetOutcome(devices, neoBridge, deviceData, temperature)
       IN /\ cmds' = cmds \o r.cmd
          /\ out' = [NoOut EXCEPT !.op = "target_set", !.dev = deviceData.id,
                                  !.arg = temperature, !.cb = r.cb,
                                  !.cmd = r.cmd, !.threw = r.threw]
    /\ UNCHANGED <<started, devices, neoBridge, timers, nextHandle, inflight,
                   pairVars, resolved, hub>>

\* the callback target_temperature.set gives to neoBridge.setTemperature
SetDone(err, command) == Cb(err, Num(command.temperature))

\* the bridge answers the i-th setTemperature command in flight with err
SetReply(i, err) ==
    /\ i \in 1..Len(cmds)
    /\ out' = [NoOut EXCEPT !.op = "set_reply", !.arg = Num(cmds[i].asked),
                            !.resp = err, !.cb = <<SetDone(err, cmds[i])>>]
    /\ cmds' = RemoveAt(cmds, i)
    /\ UNCHANGED <<started, devices, neoBridge, timers, nextHandle, inflight,
                   pairVars, resolved, hub>>

-----------------------------------------------------------------------------
(* Pairing flow *)

\* Homey.manifest.version, the version of the running app
ManifestVersion == <<1, 1, 4>>

\* the hosts a discovered hub may have
HubHosts == {"10.0.0.5", "10.0.0.6"}

\* the timeout answering with the shared list
TimeoutResultShared(temp) == temp

\* what the timeout answers the request with: callback(null, [])
TimeoutResult(temp) == <<>>

\* the entry list_devices builds for one discovered device
Descriptor(host, device) ==
    LET generatedDeviceID == generateDeviceID(device.device, device.DEVICE_TYPE) IN
    [id |-> generatedDeviceID,
     name |-> device.device,
     data |-> [pairedWithAppVersion |-> ManifestVersion,
               id |-> generatedDeviceID,
               bridgeIP |-> host]]

RECURSIVE PushAll(_, _, _)
\* discoveredDevices.forEach(device => tempDevices.push(...))
PushAll(temp, host, discoveredDevices) ==
    IF Len(discoveredDevices) = 0 THEN temp
    ELSE PushAll(Append(temp, Descriptor(host, Head(discoveredDevices))), host,
                 Tail(discoveredDevices))

RECURSIVE ReadyEvents(_)
\* the ready events emitted so far, over all requests
ReadyEvents(ss) ==
    IF Len(ss) = 0 THEN 0 ELSE Head(ss).ready + ReadyEvents(Tail(ss))

\* socket.on('list_devices'): the list is emptied, the timeout and the search start
ListDevices ==
    /\ Len(sessions) < MaxSessions
    /\ tempDevices' = <<>>
    /\ sessions' = Append(sessions, [timeout |-> "pending", calls |-> 0, ready |-> 0])
    /\ out' = [NoOut EXCEPT !.op = "list_devices", !.session = Len(sessions) + 1]
    /\ UNCHANGED <<registryVars, resolved, hub>>

\* the pairing timeout of request s fires
PairTimeout(s) ==
    /\ s \in 1..Len(sessions)
    /\ sessions[s].timeout = "pending"
    /\ sessions' = [sessions EXCEPT ![s].timeout = "fired",
                                    ![s].calls = sessions[s].calls + 1]
    /\ out' = [NoOut EXCEPT !.op = "timeout", !.session = s,
                            !.cb = <<Cb("null", List(TimeoutResult(tempDevices)))>>]
    /\ UNCHANGED <<registryVars, tempDevices, resolved, hub>>

\* the search bridge of request s emits ready(host, port, discoveredDevices)
Ready(s, host, discoveredDevices) ==
    /\ s \in 1..Len(sessions)
    /\ ReadyEvents(sessions) < MaxReady
    /\ tempDevices' = PushAll(tempDevices, host, discoveredDevices)
    /\ sessions' = [sessions EXCEPT
            ![s].timeout = IF sessions[s].timeout = "pending"
                           THEN "cleared" ELSE sessions[s].timeout,
            ![s].calls = sessions[s].calls + 1,
            ![s].ready = sessions[s].ready + 1]
    /\ out' = [NoOut EXCEPT !.op = "ready", !.session = s,
                            !.arg = List(discoveredDevices),
                            !.cb = <<Cb("null", List(tempDevices'))>>]
    /\ UNCHANGED <<registryVars, resolved, hub>>

-----------------------------------------------------------------------------
(* The driver *)

Init ==
    /\ started = FALSE
    /\ devices = <<>>
    /\ neoBridge = NoBridge
    /\ timers = {}
    /\ nextHandle = 1
    /\ inflight = <<>>
    /\ cmds = <<>>
    /\ out = NoOut
    /\ tempDevices = <<>>
    /\ sessions = <<>>
    /\ resolved = <<>>
    /\ hub = 0

\* the host starts the driver, installs and removes devices
RegistryNext ==
    \/ \E devicesData \in SeqsUpTo(DeviceDatas, MaxSaved) : InitDriver(devicesData)
    \/ \E deviceData \in DeviceDatas : Added(deviceData)
    \/ \E deviceData \in DeviceDatas : Deleted(deviceData)

\* the timers fire and the bridge answers info requests
PollNext ==
    \/ \E t \in timers : Tick(t)
    \/ \E i \in 1..MaxInflight, data \in Responses : InfoReply(i, data)

\* registry, polling and the capability getters
Next ==
    \/ RegistryNext
    \/ PollNext
    \/ \E deviceData \in DeviceDatas \cup {ErrorMarker} : TargetGet(deviceData)
    \/ \E deviceData \in DeviceDatas \cup {ErrorMarker} : MeasureGet(deviceData)

Spec == Init /\ [][Next]_vars

\* registry, polling and the capability setter.  The commands in flight are read
\* by SetReply alone and target_temperature.set reads only devices and neoBridge,
\* so the setter is checked without the getters running beside it.
SetNext ==
    \/ RegistryNext
    \/ PollNext
    \/ \E deviceData \in DeviceDatas \cup {ErrorMarker}, temperature \in SetInputs :
            TargetSet(deviceData, temperature)
    \/ \E i \in 1..MaxCmds, err \in {"null", "bridge_error"} : SetReply(i, err)

SetSpec == Init /\ [][SetNext]_vars

\* registry and polling against a hub whose set-point changes, with the reading
\* of the hub's data and the arrival of the response as two steps: responses
\* arrive in any order
RaceNext ==
    \/ RegistryNext
    \/ \E t \in timers : Tick(t)
    \/ HubChanges
    \/ \E i \in 1..MaxInflight : BridgeReads(i)
    \/ \E i \in 1..MaxInflight : InfoArrives(i)

RaceSpec == Init /\ [][RaceNext]_vars

\* the pairing flow; it reads and writes tempDevices and its own timers only
PairNext ==
    \/ ListDevices
    \/ \E s \in 1..MaxSessions : PairTimeout(s)
    \/ \E s \in 1..MaxSessions, host \in HubHosts,
          discoveredDevices \in SeqsUpTo(Snapshots, MaxFound) :
            Ready(s, host, discoveredDevices)

PairSpec == Init /\ [][PairNext]_vars

\* the identity resolver alone, on every name and type code up to MaxLen
ResolveNext ==
    \E name \in ResolverStrings, type \in ResolverStrings : Resolve(name, type)

ResolveSpec == Init /\ [][ResolveNext]_vars

-----------------------------------------------------------------------------
(* Properties *)

\* the registry holds a record with identity id
HasRecord(id) == \E x \in 1..Len(devices) : devices[x].data.id = id

\* the first record with identity id
FirstRecord(id) ==
    devices[CHOOSE x \in 1..Len(devices) :
                /\ devices[x].data.id = id
                /\ \A y \in 1..(x - 1) : devices[y].data.id # id]

\* an error argument that reports no failure
EmptyErr(err) == err \in {"null", "undefined"}

\* t held to the range 5..35 degrees
InRange(t) == IF t < 500 THEN 500 ELSE IF t > 3500 THEN 3500 ELSE t

\* C1: while the registry holds no record for identity d, no polling timer for d
\* is active and no timer-initiated refresh (info request) for d is made.
C1_NoPollingWithoutRecord ==
    /\ \A t \in timers : HasRecord(t.id)
    /\ (out.op = "tick" /\ out.info = 1) => HasRecord(out.dev)

\* C2: target_temperature.set for a registered device and a present temperature t
\* issues exactly one setTemperature command, whose value is t clamped to 5..35
\* and rounded to the nearest integer; the callback is called with the bridge's
\* error and the clamped, unrounded t.
C2_SetClampsThenRounds ==
    /\ (out.op = "target_set" /\ HasRecord(out.dev)
            /\ out.arg.k = "number" /\ out.arg.v # 0) =>
        /\ out.cb = <<>>
        /\ Len(out.cmd) = 1
        /\ Len(cmds) >= 1 /\ cmds[Len(cmds)] = out.cmd[1]
        /\ LET c == out.cmd[1]
               t == out.arg.v
           IN /\ c.temperature = InRange(t)
              /\ c.value % 100 = 0
              /\ c.value - 50 <= InRange(t) /\ InRange(t) < c.value + 50
              /\ t = 300 => c.value = 500
              /\ t = 4000 => c.value = 3500
              /\ t = 2060 => c.value = 2100 /\ c.temperature = 2060
    /\ out.op = "set_reply" =>
        out.cb = <<[err |-> out.resp, value |-> Num(InRange(out.arg.v))]>>

\* C2's case: 20.6 was asked for a registered device and 21 went to the bridge
C2_Witness ==
    /\ out.op = "target_set" /\ HasRecord(out.dev) /\ out.arg = Num(2060)
    /\ Len(out.cmd) = 1 /\ out.cmd[1].value = 2100

\* C3: target_temperature.set for a registered device and an absent or falsy
\* temperature (0 too) calls back 'missing_temperature_parameter', issues no
\* setTemperature command and changes no record.
C3_MissingTemperatureRejected ==
    [][(out'.op = "target_set"
            /\ (\E x \in 1..Len(devices) : devices[x].data.id = out'.dev)
            /\ out'.arg \in {Undefined, Null, Num(0)}) =>
        /\ out'.cb = <<[err |-> "missing_temperature_parameter", value |-> Undefined]>>
        /\ out'.cmd = <<>>
        /\ cmds' = cmds
        /\ devices' = devices]_vars

\* C3's case: 0 was asked for a registered device and rejected
C3_Witness ==
    /\ out.op = "target_set" /\ HasRecord(out.dev) /\ out.arg = Num(0)
    /\ Len(out.cb) = 1 /\ out.cb[1].err = "missing_temperature_parameter"

\* C4: target_temperature.get with an error marker, or with an identity that has
\* no record, reports failure at once and issues no info request.
C4_GetFailsWithoutRequest ==
    (out.op = "target_get" /\ (out.dev = ErrorMarker.id \/ ~HasRecord(out.dev))) =>
        /\ out.info = 0
        /\ Len(out.cb) = 1 /\ ~EmptyErr(out.cb[1].err)

\* C5: when the record of the requested identity is not found, both getters call
\* back with a non-empty error, never with an empty error and an undefined value.
C5_NotFoundIsFailure ==
    (out.op = "info_reply" /\ out.req \in {"target_get", "measure_get"}
            /\ ~HasRecord(out.dev)) =>
        /\ Len(out.cb) = 1
        /\ ~EmptyErr(out.cb[1].err)

\* C6: when the info response to a refresh of a registered device X holds one
\* snapshot with X's identity, X's record gets the snapshot's set-point
\* (unrounded), its measured value rounded to the nearest tenth and its
\* name, and exactly two realtime events, target_temperature and
\* measure_temperature, are emitted for X with those values.
C6_RefreshAppliesSnapshot ==
    (out.op = "info_reply" /\ out.resp = "ok" /\ Len(out.snap) = 1
            /\ HasRecord(out.dev)) =>
        LET s == out.snap[1]
            r == FirstRecord(out.dev)
            m == r.state.measureTemperature
        IN /\ r.state.targetTemperature = Num(s.CURRENT_SET_TEMPERATURE)
           /\ m.k = "number" /\ m.v % 10 = 0
           /\ m.v - 5 <= s.CURRENT_TEMPERATURE /\ s.CURRENT_TEMPERATURE <= m.v + 5
           /\ r.name = Str(s.device)
           /\ out.rt = << [id |-> out.dev, cap |-> "target_temperature",
                           value |-> Num(s.CURRENT_SET_TEMPERATURE)],
                          [id |-> out.dev, cap |-> "measure_temperature",
                           value |-> m] >>

\* C6's case: a timer's refresh of a registered device was answered with one
\* matching snapshot, whose measured 20.66 was stored as 20.7
C6_Witness ==
    /\ out.op = "info_reply" /\ out.req = "none" /\ out.resp = "ok"
    /\ Len(out.snap) = 1 /\ out.snap[1].CURRENT_TEMPERATURE = 2066
    /\ HasRecord(out.dev)
    /\ FirstRecord(out.dev).state.measureTemperature = Num(2070)
    /\ Len(out.rt) = 2

\* C7: a refresh of a registered device whose identity is not among the snapshots
\* of the response changes no record (so neither that device's temperatures nor
\* its name), emits no realtime notification and calls the completion callback.
C7_RefreshWithoutMatch ==
    [][(out'.op = "info_reply" /\ out'.resp = "ok" /\ out'.snap = <<>>
            /\ (\E x \in 1..Len(devices) : devices[x].data.id = out'.dev)) =>
        /\ devices' = devices
        /\ out'.rt = <<>>
        /\ ~out'.threw
        /\ out'.req # "none" => (out'.done /\ Len(out'.cb) = 1)]_vars

\* C7's case: a getter's refresh of a registered, already refreshed device was
\* answered with snapshots of other devices only
C7_Witness ==
    /\ out.op = "info_reply" /\ out.resp = "ok" /\ out.snap = <<>>
    /\ out.req # "none" /\ out.done
    /\ HasRecord(out.dev) /\ FirstRecord(out.dev).name # NoName
    /\ \E x \in 1..Len(devices) :
            devices[x].data.id # out.dev /\ devices[x].name = NoName

\* C8: a malformed info response (no object, no devices field, devices not an
\* array) raises no error, changes no record, emits no realtime notification,
\* still calls the completion callback and leaves every polling timer active.
C8_MalformedResponseSkipped ==
    [][(out'.op = "info_reply" /\ out'.resp \in {"null", "nodevices", "notarray"}) =>
        /\ ~out'.threw
        /\ devices' = devices
        /\ out'.rt = <<>>
        /\ out'.req # "none" => (out'.done /\ Len(out'.cb) = 1)
        /\ timers' = timers
        /\ \A x \in 1..Len(devices') : devices'[x].pollInterval # NoHandle =>
                \E t \in timers' : t.h = devices'[x].pollInterval]_vars

\* C8's case: a getter's refresh of a polled device was answered with an object
\* whose devices is no array, and the completion callback was called
C8_Witness ==
    /\ out.op = "info_reply" /\ out.resp = "notarray"
    /\ out.req # "none" /\ out.done /\ ~out.threw
    /\ HasRecord(out.dev)
    /\ \E t \in timers : t.id = out.dev

\* C9: when the pairing timeout of a list_devices request fires, no hub having
\* announced itself to that request, its callback is called with no error and an
\* empty list.
C9_TimeoutAnswersEmpty ==
    out.op = "timeout" =>
        /\ sessions[out.session].ready = 0
        /\ out.cb = <<[err |-> "null", value |-> List(<<>>)]>>

\* C9's case: a request timed out while the shared list held the candidates of
\* another request
C9_Witness ==
    /\ out.op = "timeout" /\ Len(out.cb) = 1
    /\ sessions[out.session].timeout = "fired"
    /\ tempDevices # <<>>

\* C10: the resolver is deterministic and injective: equal (name, type) pairs get
\* equal identities and different pairs get different identities.
C10_ResolverInjective ==
    \A i, j \in 1..Len(resolved) :
        (resolved[i].id = resolved[j].id) <=>
            (resolved[i].name = resolved[j].name /\ resolved[i].type = resolved[j].type)

\* C11: each record of the registry owns exactly one active polling timer, and
\* every active polling timer is owned by exactly one record of the registry.
C11_OneTimerPerRecord ==
    /\ \A x \in 1..Len(devices) :
            Cardinality({t \in timers : t.h = devices[x].pollInterval}) = 1
    /\ \A t \in timers :
            Cardinality({x \in 1..Len(devices) : devices[x].pollInterval = t.h}) = 1

\* C12: the registry never holds two records with the same identity.
C12_NoDuplicateIdentity ==
    \A x, y \in 1..Len(devices) :
        devices[x].data.id = devices[y].data.id => x = y

\* C13: a refresh issued for device A modifies only records with A's identity and
\* emits realtime notifications only for A: the records of every other registered
\* device B stay as they were (temperatures and name), also when the response
\* holds B's snapshot, and nothing is emitted for B.
C13_RefreshTouchesOnlyItsDevice ==
    [][out'.op = "info_reply" =>
        /\ Len(devices') = Len(devices)
        /\ \A x \in 1..Len(devices) :
                devices[x].data.id # out'.dev => devices'[x] = devices[x]
        /\ \A n \in 1..Len(out'.rt) : out'.rt[n].id = out'.dev]_vars

\* C13's case: the response to A's refresh held A's snapshot, which was applied,
\* and the snapshot of another registered device B, whose record is still as
\* addDevice made it
C13_Witness ==
    /\ out.op = "info_reply" /\ out.resp = "ok"
    /\ HasRecord(out.dev) /\ Len(out.snap) >= 1 /\ Len(out.rt) = 2
    /\ FirstRecord(out.dev).name # NoName
    /\ \E x \in 1..Len(devices) :
            /\ devices[x].data.id # out.dev
            /\ devices[x].data.id \in out.seen
            /\ devices[x].name = NoName
            /\ devices[x].state.targetTemperature = Null
            /\ devices[x].state.measureTemperature = Null

\* C14: overlapping refreshes of one device are not ordered.  The response that
\* arrives last is the one the record holds, also when it answers a request
\* issued before the request whose response was applied already; so there is a
\* reachable state (C14_Witness) where the record holds the hub's older data in
\* the place of the newer.
C14_LastArrivalWins ==
    (out.op = "info_reply" /\ out.late.k = "number" /\ HasRecord(out.dev)
            /\ Len(out.snap) >= 1) =>
        /\ FirstRecord(out.dev).state.targetTemperature =
                Num(out.snap[Len(out.snap)].CURRENT_SET_TEMPERATURE)
        /\ Len(out.rt) = 2 * Len(out.snap)

\* C14's case: the response to an earlier request arrived after the response to
\* a later request had applied a newer set-point, and the record now holds the
\* older, lower set-point while the hub has the newer
C14_Witness ==
    /\ out.op = "info_reply" /\ out.late.k = "number" /\ HasRecord(out.dev)
    /\ Len(out.snap) = 1
    /\ FirstRecord(out.dev).state.targetTemperature.k = "number"
    /\ FirstRecord(out.dev).state.targetTemperature.v < out.late.v
    /\ FirstRecord(out.dev).state.targetTemperature.v
            < HubData(hub)[1].CURRENT_SET_TEMPERATURE
    /\ out.snap[1].CURRENT_SET_TEMPERATURE < out.late.v

\* C15: when an info response arrives and the registry holds no record with the
\* identity the request was issued for (the device was deleted while the request
\* was in flight), no record changes, no realtime notification is emitted,
\* nothing is thrown and the completion callback, where the request has one, is
\* still called.
C15_ResponseAfterDelete ==
    [][(out'.op = "info_reply"
            /\ ~(\E x \in 1..Len(devices) : devices[x].data.id = out'.dev)) =>
        /\ devices' = devices
        /\ out'.rt = <<>>
        /\ ~out'.threw
        /\ out'.req # "none" => (out'.done /\ Len(out'.cb) = 1)]_vars

\* C15's case: a getter's request was issued while the device was registered,
\* the device was deleted, and the response, holding the device's snapshot,
\* arrived afterwards: the completion callback was called
C15_Witness ==
    /\ out.op = "info_reply" /\ out.resp = "ok" /\ out.had
    /\ ~HasRecord(out.dev) /\ Len(out.snap) >= 1
    /\ out.req # "none" /\ out.done /\ out.rt = <<>>

\* C16: the shared bridge handle is constructed at most once: by the first add
\* (through init or added), with that device's bridgeIP; no later step replaces
\* or clears it, also when a later device has another bridgeIP or when every
\* device has been removed.
C16_BridgeCreatedOnce ==
    [][/\ neoBridge # NoBridge => neoBridge' = neoBridge
       /\ (neoBridge = NoBridge /\ neoBridge' # NoBridge) =>
            /\ out'.op \in {"init", "added"}
            /\ devices = <<>> /\ nextHandle = 1
            /\ neoBridge' = devices'[1].data.bridgeIP
       /\ (neoBridge = NoBridge /\ devices' # <<>>) => neoBridge' # NoBridge]_vars

\* C16's case: the first device was removed and a device with another bridgeIP
\* was added; the handle is still the one made for the first device
C16_Witness ==
    /\ out.op = "added" /\ Len(devices) = 1 /\ nextHandle = 3
    /\ neoBridge # NoBridge
    /\ devices[1].data.bridgeIP # neoBridge

\* C17: the callback of a list_devices request is called exactly once, by the
\* timeout or by the ready event, never by both and never twice, in any order of
\* the two (stated for requests whose hub announced itself at most once).
C17_CallbackExactlyOnce ==
    \A s \in 1..Len(sessions) :
        sessions[s].ready <= 1 =>
            /\ sessions[s].calls <= 1
            /\ sessions[s].timeout # "pending" => sessions[s].calls = 1

\* C18: the list a ready event answers its list_devices request with holds
\* exactly one descriptor (identity, hub IP, version marker) per candidate of
\* that ready event, in order, and nothing else.
C18_ListIsOwnCandidates ==
    out.op = "ready" =>
        /\ Len(out.cb) = 1
        /\ out.cb[1].err = "null"
        /\ LET list == out.cb[1].value.v
               found == out.arg.v
           IN /\ Len(list) = Len(found)
              /\ \E host \in HubHosts : \A n \in 1..Len(list) :
                    /\ n <= Len(found)
                    /\ list[n].id = Base64(found[n].device \o found[n].DEVICE_TYPE)
                    /\ list[n].name = found[n].device
                    /\ list[n].data.id = list[n].id
                    /\ list[n].data.bridgeIP = host
                    /\ list[n].data.pairedWithAppVersion = <<1, 1, 4>>

\* C19: every call of target_temperature.get or measure_temperature.get leads to
\* exactly one call of the caller's callback, in every reachable state (also
\* with no bridge handle), given that the bridge answers every info request:
\* the call either answers at once or leaves an info request in flight that
\* carries its completion callback, and the response to such a request calls
\* the caller's callback once.
C19_GetAlwaysAnswers ==
    /\ out.op \in {"target_get", "measure_get"} =>
        \/ Len(out.cb) = 1 /\ out.info = 0
        \/ /\ out.cb = <<>> /\ out.info = 1
           /\ Len(inflight) >= 1 /\ inflight[Len(inflight)].cb = out.op
    /\ (out.op = "info_reply" /\ out.req # "none") => Len(out.cb) = 1

\* C20: a setTemperature command issued by target_temperature.set carries the
\* display name the record got from the refresh applied last; it is never issued
\* with an unset name, also when set is called after add and before any refresh.
C20_CommandCarriesName ==
    (out.op = "target_set" /\ Len(out.cmd) = 1) =>
        /\ HasRecord(out.dev)
        /\ out.cmd[1].name = FirstRecord(out.dev).name
        /\ out.cmd[1].name.k = "string"

====
